---- MODULE Spec2Model ----
(***************************************************************************)
(* DeltaLakeMetadataParser<Configuration, MetadataReadHelper>::Impl of     *)
(* src/Storages/DataLakes/DeltaLakeMetadataParser.cpp as a state machine.  *)
(*                                                                         *)
(* One behaviour is one construction of the parser: getCheckpointIfExists, *)
(* then either the version scan after a checkpoint or the listing of       *)
(* _delta_log, processMetadataFile on every file that is opened, and the   *)
(* return of DeltaLakeMetadata.  The storage (which log files exist, what  *)
(* _last_checkpoint says) is fixed by Init; the bytes of a file are drawn  *)
(* as the read buffer delivers them, one JSON object or one checkpoint row *)
(* per step.  Strings whose characters matter (paths, file names, literal  *)
(* partition values) are sequences of character codes.                     *)
(*                                                                         *)
(* Spec runs the parser on logs without gaps with every file content of    *)
(* the model; SpecScan runs it on every set of versions with a few file    *)
(* contents.                                                               *)
(***************************************************************************)
EXTENDS Integers, Sequences, FiniteSets, TLC

(***************************************************************************)
(* Bounds of the model.                                                    *)
(***************************************************************************)
\* log versions 0..MaxVersion may exist in _delta_log
MaxVersion == 4
\* _last_checkpoint, when present, names a version in 1..MaxCheckpoint
MaxCheckpoint == 2
\* JSON objects delivered by one log file
MaxObjects == 2
\* bytes of a log file, where the file is given byte by byte
MaxText == 4
\* rows of the checkpoint table
MaxRows == 2

(***************************************************************************)
(* Characters and strings.                                                 *)
(***************************************************************************)
\* '/'
SLASH == 47
\* '0'
ZERO == 48

\* "/t", the value of configuration.getPath()
Root == <<47, 116>>

\* add.path / remove.path values: "a", and "/d/a" (absolute, another
\* directory, the same basename)
PathA == <<97>>
PathAbs == <<47, 100, 47, 97>>
Paths == {PathA, PathAbs}

\* std::string operator< : lexicographic on character codes
LexLess(a, b) ==
    \E i \in 1..(Len(b)) :
        /\ i <= Len(a) + 1
        /\ \A j \in 1..(i - 1) : a[j] = b[j]
        /\ IF i = Len(a) + 1 THEN TRUE ELSE a[i] < b[i]

\* faulty variant: the strings come from the last to the first
RECURSIVE SetToStrings_Backwards(_)
SetToStrings_Backwards(S) ==
    IF S = {} THEN <<>>
    ELSE LET m == CHOOSE x \in S : \A y \in S \ {x} : LexLess(y, x)
         IN  <<m>> \o SetToStrings_Backwards(S \ {m})

\* iteration order of std::set<String>: begin() .. end()
RECURSIVE SetToStrings(_)
SetToStrings(S) ==
    IF S = {} THEN <<>>
    ELSE LET m == CHOOSE x \in S : \A y \in S \ {x} : LexLess(x, y)
         IN  <<m>> \o SetToStrings(S \ {m})

Range(s) == {s[i] : i \in DOMAIN s}

(***************************************************************************)
(* std::filesystem::path                                                   *)
(***************************************************************************)
IsAbsolute(p) == Len(p) > 0 /\ p[1] = SLASH

\* index of the last '/' of p, 0 when there is none
LastSlash(p) ==
    LET S == {i \in 1..Len(p) : p[i] = SLASH}
    IN  IF S = {} THEN 0 ELSE CHOOSE i \in S : \A j \in S : j <= i

\* fs::path(p).filename().string()
Filename(p) == SubSeq(p, LastSlash(p) + 1, Len(p))

\* fs::path(base) / p : an absolute p replaces base
PathJoin(base, p) ==
    IF IsAbsolute(p) THEN p
    ELSE IF Filename(base) # <<>> THEN base \o <<SLASH>> \o p
    ELSE base \o p

\* fs::path(configuration.getPath()) / path
DataFilePath(path) == PathJoin(Root, path)

(***************************************************************************)
(* File names of _delta_log.                                               *)
(***************************************************************************)
\* ".json"
metadata_file_suffix == <<46, 106, 115, 111, 110>>

\* n div 10^k
RECURSIVE DivPow10(_, _)
DivPow10(n, k) == IF k = 0 THEN n ELSE DivPow10(n \div 10, k - 1)

\* toString(size_t): decimal text without leading zeros
RECURSIVE toString(_)
toString(n) ==
    IF n < 10 THEN <<ZERO + n>> ELSE toString(n \div 10) \o <<ZERO + (n % 10)>>

\* File names are zero-padded to 20 digits.
padding == 20

\* std::string(count, ch)
Fill(count, ch) == [i \in 1..count |-> ch]

\* faulty variant: no padding at all
withPadding_NoPadding(version) == toString(version)

withPadding(version) ==
    LET version_str == toString(version)
    IN  Fill(padding - Len(version_str), ZERO) \o version_str

\* the name under which the writer of the table stores commit v:
\* the version number zero-padded to 20 digits, then ".json"
LogFileName(v) ==
    [i \in 1..20 |-> ZERO + (DivPow10(v, 20 - i) % 10)] \o metadata_file_suffix

Versions == 0..MaxVersion

(***************************************************************************)
(* The same over the whole range of size_t. A size_t is four 16-bit limbs, *)
(* the most significant first.                                             *)
(***************************************************************************)
LimbBase == 65536

\* n div 10 and n mod 10, by long division from limb i on
RECURSIVE DivMod10(_, _, _, _)
DivMod10(n, i, rem, quot) ==
    IF i > Len(n) THEN [quot |-> quot, rem |-> rem]
    ELSE LET cur == rem * LimbBase + n[i]
         IN  DivMod10(n, i + 1, cur % 10, Append(quot, cur \div 10))

\* faulty variant: only the least significant limb is converted
toStringUInt64_LowLimb(n) == toString(n[Len(n)])

\* toString(size_t): decimal text without leading zeros
RECURSIVE toStringUInt64(_)
toStringUInt64(n) ==
    LET d == DivMod10(n, 1, 0, <<>>)
    IN  IF \A i \in 1..Len(n) : d.quot[i] = 0
        THEN <<ZERO + d.rem>>
        ELSE toStringUInt64(d.quot) \o <<ZERO + d.rem>>

\* padding - version_str.size() in size_t: below zero it wraps around, which
\* no std::string can hold (std::length_error)
PaddingCount(size) == padding - size

\* faulty variant: no padding at all
withPaddingUInt64_NoPadding(version) == toStringUInt64(version)

withPaddingUInt64(version) ==
    LET version_str == toStringUInt64(version)
    IN  Fill(PaddingCount(Len(version_str)), ZERO) \o version_str

(***************************************************************************)
(* Type resolver.                                                          *)
(***************************************************************************)
\* a thrown Exception: its error code and what it complains about
Exception(code, message) == [code |-> code, message |-> message]
NoError == Exception("", "")

\* the value that an uninitialised size_t is read as
VARIABLE indeterminate

\* a char of a String, as a String of length one
CharAt(s, i) == SubSeq(s, i, i)

IsDigit(c) == \E i \in 1..10 : CharAt("0123456789", i) = c
DigitValue(c) == (CHOOSE i \in 1..10 : CharAt("0123456789", i) = c) - 1

\* ReadBufferFromString: the text and the position of the next char
ReadBuffer(text, pos) == [text |-> text, pos |-> pos]
eof(buf) == buf.pos > Len(buf.text)

\* the loop of readIntTextImpl over the digits at the position of buf
RECURSIVE readDigits(_, _)
readDigits(buf, res) ==
    IF ~eof(buf) /\ IsDigit(CharAt(buf.text, buf.pos))
    THEN readDigits(ReadBuffer(buf.text, buf.pos + 1),
                    res * 10 + DigitValue(CharAt(buf.text, buf.pos)))
    ELSE [x |-> res, buf |-> buf]

\* readIntText(x, buf): throws at the end of the buffer; else x is the number
\* the digits at the position spell, 0 when there is none
readIntText(buf) ==
    IF eof(buf)
    THEN [error |-> Exception("ATTEMPT_TO_READ_AFTER_EOF", "Attempt to read after eof"),
          x |-> 0, buf |-> buf]
    ELSE [error |-> NoError, x |-> readDigits(buf, 0).x, buf |-> readDigits(buf, 0).buf]

\* tryReadIntText(x, buf): at the end of the buffer x is left as it was
tryReadIntText(x, buf) ==
    IF eof(buf) THEN [x |-> x, buf |-> buf] ELSE readDigits(buf, 0)

RECURSIVE skipWhitespaceIfAny(_)
skipWhitespaceIfAny(buf) ==
    IF ~eof(buf) /\ CharAt(buf.text, buf.pos) = " "
    THEN skipWhitespaceIfAny(ReadBuffer(buf.text, buf.pos + 1))
    ELSE buf

\* assertChar(symbol, buf)
assertChar(symbol, buf) ==
    IF ~eof(buf) /\ CharAt(buf.text, buf.pos) = symbol
    THEN [error |-> NoError, buf |-> ReadBuffer(buf.text, buf.pos + 1)]
    ELSE [error |-> Exception("CANNOT_PARSE_INPUT_ASSERTION_FAILED",
                              "Cannot parse input: expected ','"),
          buf |-> buf]

\* the result of getSimpleTypeByName: the internal type name, or the exception
Resolved(name) == [error |-> NoError, name |-> name]
Unresolved(e) == [error |-> e, name |-> ""]

\* createDecimal<DataTypeDecimal>(precision_value, scale_value)
createDecimal(precision_value, scale_value) ==
    IF precision_value < 1 \/ precision_value > 76
    THEN Unresolved(Exception("ARGUMENT_OUT_OF_BOUND", "Wrong precision"))
    ELSE IF scale_value > precision_value
    THEN Unresolved(Exception("ARGUMENT_OUT_OF_BOUND",
                              "Scales larger than precision are not supported"))
    ELSE Resolved("Decimal(" \o ToString(precision_value) \o ", "
                    \o ToString(scale_value) \o ")")

\* the branch of "decimal(...)": precision and scale are declared without a
\* value, and scale keeps none when tryReadIntText finds the buffer at its end
DecimalBranch(type_name) ==
    LET buf == ReadBuffer(SubSeq(type_name, 9, Len(type_name) - 1), 1)
        precision == readIntText(buf)
        comma == assertChar(",", skipWhitespaceIfAny(precision.buf))
        scale == tryReadIntText(indeterminate, skipWhitespaceIfAny(comma.buf))
    IN  IF precision.error # NoError THEN Unresolved(precision.error)
        ELSE IF comma.error # NoError THEN Unresolved(comma.error)
        ELSE createDecimal(precision.x, scale.x)

\* Delta primitive type name -> internal type name
getSimpleTypeByName(type_name) ==
    CASE type_name \in {"string", "binary"} -> Resolved("String")
      [] type_name = "long" -> Resolved("Int64")
      [] type_name = "integer" -> Resolved("Int32")
      [] type_name = "short" -> Resolved("Int16")
      [] type_name = "byte" -> Resolved("Int8")
      [] type_name = "float" -> Resolved("Float32")
      [] type_name = "double" -> Resolved("Float64")
      [] type_name = "boolean" -> Resolved("Bool")
      [] type_name = "date" -> Resolved("Date32")
      [] type_name = "timestamp" -> Resolved("DateTime64(6)")
      [] /\ Len(type_name) >= 9
         /\ SubSeq(type_name, 1, 8) = "decimal("
         /\ CharAt(type_name, Len(type_name)) = ")" -> DecimalBranch(type_name)
      [] OTHER -> Unresolved(Exception("BAD_ARGUMENTS", "Unsupported DeltaLake type"))

\* a resolved type: the internal type, wrapped in Nullable or not
DataType(name, nullable) == [name |-> name, nullable |-> nullable]

\* getFieldType for a field whose "type" is a string
getFieldType(field, is_nullable) ==
    LET data_type == getSimpleTypeByName(field.type)
    IN  IF data_type.error # NoError
        THEN [error |-> data_type.error, type |-> DataType("", FALSE)]
        ELSE [error |-> NoError, type |-> DataType(data_type.name, is_nullable)]

\* parse<IntN>(value) for a text of decimal digits
RECURSIVE parseInt(_)
parseInt(value) ==
    IF value = <<>> THEN 0
    ELSE 10 * parseInt(SubSeq(value, 1, Len(value) - 1)) + (value[Len(value)] - ZERO)

\* a Field: which alternative it holds, and the value
StringField(s) == [which |-> "String", str |-> s, int |-> 0]
IntField(n) == [which |-> "Int64", str |-> <<>>, int |-> n]

\* getFieldValue: the Nullable wrapper is stripped, strings pass through,
\* integer types are parsed; the types it has no branch for throw
getFieldValue(value, data_type) ==
    LET check_type == data_type.name
    IN  CASE check_type = "String" -> [error |-> NoError, field |-> StringField(value)]
          [] check_type \in {"Int8", "Int16", "Int32", "Int64"} ->
                [error |-> NoError, field |-> IntField(parseInt(value))]
          [] OTHER ->
                [error |-> Exception("BAD_ARGUMENTS", "Unsupported DeltaLake type for"),
                 field |-> IntField(0)]

(***************************************************************************)
(* NamesAndTypesList                                                       *)
(***************************************************************************)
NameAndTypePair(name, type) == [name |-> name, type |-> type]

\* NamesAndTypesList::tryGetByName: the positions holding that name
PositionsOf(list, name) == {i \in 1..Len(list) : list[i].name = name}
HasName(list, name) == PositionsOf(list, name) # {}
tryGetByName(list, name) ==
    list[CHOOSE i \in PositionsOf(list, name) : \A j \in PositionsOf(list, name) : i <= j]

(***************************************************************************)
(* The inputs a file can deliver.                                          *)
(***************************************************************************)
\* a field of schemaString: name, type, nullable, metadata (a set of
\* <<key, value>> pairs)
physicalName == "delta.columnMapping.physicalName"
SchemaField(name, type, nullable, metadata) ==
    [name |-> name, type |-> type, nullable |-> nullable, metadata |-> metadata]

\* schema descriptors (the "fields" array of schemaString): no field; x; x
\* and a field u whose physical name is y; a type name that does not resolve
FieldsNone == <<>>
FieldsX == <<SchemaField("x", "integer", TRUE, {})>>
FieldsXY ==
    <<SchemaField("x", "long", FALSE, {}),
      SchemaField("u", "string", TRUE, {<<physicalName, "y">>})>>
FieldsBad == <<SchemaField("x", "interval", TRUE, {})>>
Descriptors == {FieldsNone, FieldsX, FieldsXY, FieldsBad}
\* a column renamed from a to b, then a new column a; a column whose
\* physical name is its logical name
FieldsRenamed ==
    <<SchemaField("b", "long", FALSE, {<<physicalName, "a">>}),
      SchemaField("a", "string", TRUE, {<<physicalName, "c">>})>>
FieldsSame == <<SchemaField("x", "integer", TRUE, {<<physicalName, "x">>})>>
\* a decimal column whose type name has no scale
FieldsDecimal == <<SchemaField("d", "decimal(5,)", TRUE, {})>>

\* literal partition values: "7", "12"
Seven == <<55>>
Twelve == <<49, 50>>

\* partitionValues, in the order of getNames()
PartitionValue(name, value) == [name |-> name, value |-> value]
ValuesX == <<PartitionValue("x", Seven)>>
ValuesXY == <<PartitionValue("x", Twelve), PartitionValue("y", Seven)>>

\* the value of a key of a JSON object; has = FALSE when the key is absent
NoAdd == [has |-> FALSE, path |-> <<>>, partitionValues |-> <<>>]
Add(path, partition_values) ==
    [has |-> TRUE, path |-> path, partitionValues |-> partition_values]
NoRemove == [has |-> FALSE, path |-> <<>>]
Remove(path) == [has |-> TRUE, path |-> path]
NoMetaData == [has |-> FALSE, fields |-> <<>>]
MetaData(fields) == [has |-> TRUE, fields |-> fields]

AddValues ==
    {Add(p, <<>>) : p \in Paths} \cup {Add(PathA, ValuesX), Add(PathAbs, ValuesXY)}
RemoveValues == {Remove(p) : p \in Paths}
MetaDataValues == {MetaData(d) : d \in Descriptors}

\* one JSON object of a log file: the keys the parser looks at
JSONObject(add, remove, meta) == [add |-> add, remove |-> remove, metaData |-> meta]
\* objects with one of the keys, or none of them (commitInfo, protocol, txn)
SingleKeyObjects ==
    {JSONObject(NoAdd, NoRemove, NoMetaData)}
        \cup {JSONObject(a, NoRemove, NoMetaData) : a \in AddValues}
        \cup {JSONObject(NoAdd, r, NoMetaData) : r \in RemoveValues}
        \cup {JSONObject(NoAdd, NoRemove, m) : m \in MetaDataValues}
\* objects with more than one of the keys
MultiKeyObjects ==
    { JSONObject(Add(PathA, <<>>), Remove(PathAbs), NoMetaData),
      JSONObject(Add(PathA, <<>>), Remove(PathA), NoMetaData),
      JSONObject(Add(PathA, ValuesX), NoRemove, MetaData(FieldsX)),
      JSONObject(NoAdd, Remove(PathA), MetaData(FieldsX)) }
JSONObjects == SingleKeyObjects \cup MultiKeyObjects
\* a few of them: an add, a remove, a metaData that throws
ScanObjects ==
    { JSONObject(Add(PathA, <<>>), NoRemove, NoMetaData),
      JSONObject(NoAdd, Remove(PathA), NoMetaData),
      JSONObject(NoAdd, NoRemove, MetaData(FieldsBad)) }

\* one row of the checkpoint table: add.path (null or a string), remove.path
\* and the metaData column
NullPath == [is_null |-> TRUE, str |-> <<>>]
StringPath(s) == [is_null |-> FALSE, str |-> s]
RowPaths == {NullPath, StringPath(<<>>)} \cup {StringPath(p) : p \in Paths}
CheckpointRow(add_path, remove_path, meta) ==
    [add_path |-> add_path, remove_path |-> remove_path, metaData |-> meta]
CheckpointRows ==
    {CheckpointRow(a, r, m) :
        a \in RowPaths, r \in {NullPath, StringPath(PathA)},
        m \in {NoMetaData, MetaData(FieldsX)}}
\* a few of them
ScanRows ==
    { CheckpointRow(StringPath(PathA), NullPath, NoMetaData),
      CheckpointRow(NullPath, NullPath, MetaData(FieldsX)) }

(***************************************************************************)
(* processMetadataFile: what one JSON object does to the builder.          *)
(***************************************************************************)
\* the builder's state: result (std::set<String>), file_schema,
\* file_partition_columns, and the exception thrown, if any
Builder(result, file_schema, file_partition_columns, error) ==
    [result |-> result, file_schema |-> file_schema,
     file_partition_columns |-> file_partition_columns, error |-> error]

\* file_partition_columns is a set of [filename, columns] with one entry per
\* filename
PartitionEntry(filename, columns) == [filename |-> filename, columns |-> columns]

\* faulty variant: find never finds
HasPartitionEntry_Never(file_partition_columns, filename) == FALSE

\* file_partition_columns.find(filename) != file_partition_columns.end()
HasPartitionEntry(file_partition_columns, filename) ==
    \E e \in file_partition_columns : e.filename = filename

\* faulty variant: a name the schema does not have is skipped
RECURSIVE PartitionLoop_SkipsUnknown(_, _, _, _)
PartitionLoop_SkipsUnknown(file_schema, partition_values, i, columns) ==
    IF i > Len(partition_values) THEN [error |-> NoError, columns |-> columns]
    ELSE LET name == partition_values[i].name
             value == partition_values[i].value
         IN  IF ~HasName(file_schema, name)
             THEN PartitionLoop_SkipsUnknown(file_schema, partition_values, i + 1, columns)
             ELSE LET name_and_type == tryGetByName(file_schema, name)
                      field == getFieldValue(value, name_and_type.type)
                  IN  IF field.error # NoError
                      THEN [error |-> field.error, columns |-> columns]
                      ELSE PartitionLoop_SkipsUnknown(file_schema, partition_values, i + 1,
                               Append(columns,
                                      [name_and_type |-> name_and_type,
                                       field |-> field.field]))

\* the loop over partition_values->getNames(), from position i on
RECURSIVE PartitionLoop(_, _, _, _)
PartitionLoop(file_schema, partition_values, i, columns) ==
    IF i > Len(partition_values) THEN [error |-> NoError, columns |-> columns]
    ELSE LET name == partition_values[i].name
             value == partition_values[i].value
         IN  IF ~HasName(file_schema, name)
             THEN [error |-> Exception("LOGICAL_ERROR", "No such column in schema"),
                   columns |-> columns]
             ELSE LET name_and_type == tryGetByName(file_schema, name)
                      field == getFieldValue(value, name_and_type.type)
                  IN  IF field.error # NoError
                      THEN [error |-> field.error, columns |-> columns]
                      ELSE PartitionLoop(file_schema, partition_values, i + 1,
                               Append(columns,
                                      [name_and_type |-> name_and_type,
                                       field |-> field.field]))

\* if (object->has("add"))
ApplyAdd(b, add_object) ==
    LET path == add_object.path
        result == b.result \cup {DataFilePath(path)}
        filename == Filename(path)
        partition_values == add_object.partitionValues
    IN  IF HasPartitionEntry(b.file_partition_columns, filename)
           \/ Len(partition_values) = 0
        THEN Builder(result, b.file_schema, b.file_partition_columns, NoError)
        ELSE LET loop == PartitionLoop(b.file_schema, partition_values, 1, <<>>)
             IN  Builder(result, b.file_schema,
                         b.file_partition_columns
                             \cup {PartitionEntry(filename, loop.columns)},
                         loop.error)

\* faulty variant: erase is left out
ApplyRemove_KeepsFile(b, remove_object) == b

\* faulty variant: erasing a path that is not in the set throws
ApplyRemove_ThrowsIfAbsent(b, remove_object) ==
    Builder(b.result \ {DataFilePath(remove_object.path)},
            b.file_schema, b.file_partition_columns,
            IF DataFilePath(remove_object.path) \in b.result THEN NoError
            ELSE Exception("INCORRECT_DATA", "No such file"))

\* else if (object->has("remove"))
ApplyRemove(b, remove_object) ==
    Builder(b.result \ {DataFilePath(remove_object.path)},
            b.file_schema, b.file_partition_columns, NoError)

\* faulty variant: the logical name, column mapping or not
PhysicalName_Logical(field) == field.name

\* the physical name of a field of schemaString
PhysicalName(field) ==
    IF \E kv \in field.metadata : kv[1] = physicalName
    THEN (CHOOSE kv \in field.metadata : kv[1] = physicalName)[2]
    ELSE field.name

\* the loop over fields: current_schema, or the first exception of getFieldType
RECURSIVE SchemaLoop(_, _, _)
SchemaLoop(fields, i, current_schema) ==
    IF i > Len(fields) THEN [error |-> NoError, schema |-> current_schema]
    ELSE LET type == getFieldType(fields[i], fields[i].nullable)
         IN  IF type.error # NoError
             THEN [error |-> type.error, schema |-> current_schema]
             ELSE SchemaLoop(fields, i + 1,
                      Append(current_schema,
                             NameAndTypePair(PhysicalName(fields[i]), type.type)))

\* faulty variant: adopting or comparing the schema empties the partition map
ApplyMetaData_DropsPartitions(b, metadata_object) ==
    Builder(b.result, SchemaLoop(metadata_object.fields, 1, <<>>).schema, {}, NoError)

\* if (object->has("metaData"))
ApplyMetaData(b, metadata_object) ==
    LET loop == SchemaLoop(metadata_object.fields, 1, <<>>)
        current_schema == loop.schema
    IN  IF loop.error # NoError
        THEN Builder(b.result, b.file_schema, b.file_partition_columns, loop.error)
        ELSE IF b.file_schema = <<>>
        THEN Builder(b.result, current_schema, b.file_partition_columns, NoError)
        ELSE IF b.file_schema # current_schema
        THEN Builder(b.result, b.file_schema, b.file_partition_columns,
                     Exception("NOT_IMPLEMENTED",
                               "Reading from files with different schema is not possible"))
        ELSE b

\* the body of the while loop of processMetadataFile for one parsed object
ProcessObject(b, object) ==
    LET after_add_remove ==
            IF object.add.has THEN ApplyAdd(b, object.add)
            ELSE IF object.remove.has THEN ApplyRemove(b, object.remove)
            ELSE b
    IN  IF after_add_remove.error # NoError THEN after_add_remove
        ELSE IF object.metaData.has
        THEN ApplyMetaData(after_add_remove, object.metaData)
        ELSE after_add_remove

(***************************************************************************)
(* State.                                                                  *)
(***************************************************************************)
VARIABLES
    \* the context's stop signal
    stop_signal,
    \* a call of getSimpleTypeByName on its own: its argument and what it gave
    type_name, data_type,
    \* calls of withPadding on their own: two versions and their file names
    versions, names,
    \* what the files of the storage hold, when that is fixed from the start
    contents,
    \* the number of the parse of this storage, and how the one before it ended
    parse, first,
    \* the storage: names of the .json files of _delta_log, _last_checkpoint
    log_files, last_checkpoint,
    \* where the parse is
    pc,
    \* processMetadataFiles: its locals
    result_files, current_schema, current_partition_columns,
    checkpoint_version, current_version, keys,
    \* processMetadataFile: the file being read, objects read from it so far
    key, nread,
    \* getCheckpointIfExists: rows visited so far
    nrows,
    \* the members of DeltaLakeMetadataParser, and the exception that left it
    data_files, schema, partition_columns, error,
    \* history: the files opened, in order
    opened,
    \* history: per data file path, the last of the log's Add/Remove actions
    last_action,
    \* history: an object carrying both add and remove has been read
    both_seen,
    \* history: the non-empty add.path values of the checkpoint rows visited,
    \* and whether one of them came twice
    checkpoint_paths, checkpoint_duplicate,
    \* history: the metaData actions met, each with whether it was applied
    metadata_seen,
    \* history: the add of the object of the last step, and the path that a
    \* remove-only object of the last step removed
    last_add, last_remove

\* what the parse reads and never writes: the storage and the stop signal
resolver_vars == <<type_name, data_type>>
naming_vars == <<versions, names>>
replay_vars == <<contents, parse, first>>
env_vars ==
    <<log_files, last_checkpoint, stop_signal, indeterminate, resolver_vars,
      naming_vars, replay_vars>>
builder_vars == <<result_files, current_schema, current_partition_columns>>
output_vars == <<data_files, schema, partition_columns>>
history_vars ==
    <<opened, last_action, both_seen, checkpoint_paths, checkpoint_duplicate,
      metadata_seen, last_add, last_remove>>
vars ==
    <<log_files, last_checkpoint, stop_signal, indeterminate, type_name, data_type,
      versions, names, contents, parse, first, pc, result_files, current_schema,
      current_partition_columns, checkpoint_version, current_version, keys, key,
      nread, nrows, data_files, schema, partition_columns, error, opened,
      last_action, both_seen, checkpoint_paths, checkpoint_duplicate,
      metadata_seen, last_add, last_remove>>

\* every path a data file can get in this model
DataFilePaths == {DataFilePath(p) : p \in Paths}

NoFile == <<>>
NoPath == <<>>

\* _last_checkpoint: absent, or {"version": v}
NoLastCheckpoint == [exists |-> FALSE, version |-> 0]
LastCheckpoint(v) == [exists |-> TRUE, version |-> v]

\* the sets of versions a log without gaps holds: none, 0, 0..1, 0..2, ...
GapFreeLogs == {0..(n - 1) : n \in 0..(MaxVersion + 1)}
\* any set of versions
AnyLogs == SUBSET Versions

\* the locals, the members and the history before the first step, at position at
Entry(at) ==
    /\ pc = at
    /\ result_files = {}
    /\ current_schema = <<>>
    /\ current_partition_columns = {}
    /\ checkpoint_version = 0
    /\ current_version = 0
    /\ keys = <<>>
    /\ key = NoFile
    /\ nread = 0
    /\ nrows = 0
    /\ data_files = <<>>
    /\ schema = <<>>
    /\ partition_columns = {}
    /\ error = NoError
    /\ opened = <<>>
    /\ last_action = [k \in DataFilePaths |-> "none"]
    /\ both_seen = FALSE
    /\ checkpoint_paths = {}
    /\ checkpoint_duplicate = FALSE
    /\ metadata_seen = {}
    /\ last_add = NoAdd
    /\ last_remove = NoPath

\* no call of getSimpleTypeByName or of withPadding on its own
NoResolverCall ==
    type_name = "" /\ data_type = Resolved("") /\ versions = <<>> /\ names = <<>>

\* how a parse ended: where, the members it assigned, the exception
Outcome ==
    [pc |-> pc, data_files |-> data_files, schema |-> schema,
     partition_columns |-> partition_columns, error |-> error]
NoOutcome ==
    [pc |-> "", data_files |-> <<>>, schema |-> <<>>, partition_columns |-> {},
     error |-> NoError]

\* the storage's files as objects and rows: per log file its objects, and for
\* the checkpoint file its version, the number of columns among add and
\* remove that it has, and the add and remove paths of its rows
Contents(files, version, columns, rows) ==
    [files |-> files, version |-> version, columns |-> columns, rows |-> rows]

\* one parse, of files whose content is drawn as they are read
OneLazyParse ==
    contents = Contents(<<>>, 0, 0, <<>>) /\ parse = 1 /\ first = NoOutcome

\* the state at the entry of the constructor, for a log out of Logs; no schema
\* of these logs has a decimal, so that the indeterminate value is never read
InitWith(Logs) ==
    /\ \E S \in Logs : log_files = {LogFileName(v) : v \in S}
    /\ last_checkpoint \in
           {NoLastCheckpoint} \cup {LastCheckpoint(v) : v \in 1..MaxCheckpoint}
    /\ stop_signal = FALSE
    /\ indeterminate = 0
    /\ NoResolverCall
    /\ OneLazyParse
    /\ Entry("start")

Init == InitWith(GapFreeLogs)
InitScan == InitWith(AnyLogs)

(***************************************************************************)
(* MetadataReadHelper                                                      *)
(***************************************************************************)
\* MetadataReadHelper::exists for a file of _delta_log
exists(filename) == filename \in log_files

EndsWith(s, suffix) ==
    Len(suffix) <= Len(s) /\ SubSeq(s, Len(s) - Len(suffix) + 1, Len(s)) = suffix

\* MetadataReadHelper::listFiles(configuration, "_delta_log", ".json")
listFiles(suffix) == SetToStrings({f \in log_files : EndsWith(f, suffix)})

(***************************************************************************)
(* The exception leaves the constructor: the locals are gone, the members  *)
(* were never assigned.                                                    *)
(***************************************************************************)
\* faulty variant: the exception is swallowed and what was built is returned
Throw_ReturnsPartial(e) ==
    /\ pc' = "return"
    /\ error' = e
    /\ UNCHANGED <<builder_vars, keys, key, checkpoint_version, current_version,
                   nread, nrows, output_vars>>

Throw(e) ==
    /\ pc' = "failed"
    /\ error' = e
    /\ result_files' = {}
    /\ current_schema' = <<>>
    /\ current_partition_columns' = {}
    /\ keys' = <<>>
    /\ key' = NoFile
    /\ UNCHANGED <<checkpoint_version, current_version, nread, nrows, output_vars>>

(***************************************************************************)
(* getCheckpointIfExists                                                   *)
(***************************************************************************)
\* faulty variant: a missing _last_checkpoint reads as version 1
readLastCheckpointIfExists_AbsentIsOne ==
    IF ~last_checkpoint.exists THEN 1 ELSE last_checkpoint.version

readLastCheckpointIfExists ==
    IF ~last_checkpoint.exists THEN 0 ELSE last_checkpoint.version

\* ".checkpoint.parquet"
checkpoint_suffix ==
    <<46, 99, 104, 101, 99, 107, 112, 111, 105, 110, 116,
      46, 112, 97, 114, 113, 117, 101, 116>>

\* from the entry up to the first row: no version means no checkpoint; else
\* the checkpoint file is opened and its add and remove columns are read
GetCheckpointOf(Sizes) ==
    /\ pc = "start"
    /\ LET version == readLastCheckpointIfExists
       IN  IF version = 0
           THEN /\ pc' = "list"
                /\ checkpoint_version' = 0
                /\ UNCHANGED <<builder_vars, current_version, keys, key, nread, nrows,
                               output_vars, error, opened>>
           ELSE /\ opened' = Append(opened, withPadding(version) \o checkpoint_suffix)
                /\ \E res_columns_size \in Sizes :
                      IF res_columns_size # 2
                      THEN Throw(Exception("INCORRECT_DATA", "Unexpected number of columns"))
                      ELSE /\ pc' = "checkpoint"
                           /\ nrows' = 0
                           /\ UNCHANGED <<builder_vars, checkpoint_version,
                                          current_version, keys, key, nread,
                                          output_vars, error>>
    /\ UNCHANGED <<env_vars, last_action, both_seen, checkpoint_paths,
                   checkpoint_duplicate, metadata_seen, last_add, last_remove>>

GetCheckpoint == GetCheckpointOf({1, 2})

\* faulty variant: insert reports success also for a value the set holds
SetInsert_AlwaysInserted(set, value) == [set |-> set \cup {value}, inserted |-> TRUE]

\* std::set<String>::insert: the set afterwards, and whether it grew
SetInsert(set, value) == [set |-> set \cup {value}, inserted |-> value \notin set]

\* one turn of the loop over path_column
VisitCheckpointRowOf(Rows) ==
    /\ pc = "checkpoint"
    /\ nrows < MaxRows
    /\ \E row \in Rows :
          LET filename == row.add_path.str
              insert == SetInsert(result_files, DataFilePath(filename))
          IN  /\ metadata_seen' =
                     IF row.metaData.has
                     THEN metadata_seen \cup
                              {[fields |-> row.metaData.fields, applied |-> FALSE]}
                     ELSE metadata_seen
              /\ IF filename = <<>>
                 THEN /\ nrows' = nrows + 1
                      /\ UNCHANGED <<pc, builder_vars, checkpoint_version,
                                     current_version, keys, key, nread, output_vars,
                                     error, checkpoint_paths, checkpoint_duplicate>>
                 ELSE /\ checkpoint_paths' = checkpoint_paths \cup {filename}
                      /\ checkpoint_duplicate' =
                             (checkpoint_duplicate \/ filename \in checkpoint_paths)
                      /\ IF ~insert.inserted
                         THEN Throw(Exception("INCORRECT_DATA", "File already exists"))
                         ELSE /\ result_files' = insert.set
                              /\ nrows' = nrows + 1
                              /\ UNCHANGED <<pc, current_schema,
                                             current_partition_columns,
                                             checkpoint_version, current_version,
                                             keys, key, nread, output_vars, error>>
    /\ UNCHANGED <<env_vars, opened, last_action, both_seen, last_add, last_remove>>

VisitCheckpointRow == VisitCheckpointRowOf(CheckpointRows)
VisitCheckpointRowScan == VisitCheckpointRowOf(ScanRows)

\* the loop is over: return version, and processMetadataFiles takes the
\* checkpoint branch with current_version = checkpoint_version
ReturnCheckpoint ==
    /\ pc = "checkpoint"
    /\ pc' = "scan"
    /\ checkpoint_version' = readLastCheckpointIfExists
    /\ current_version' = readLastCheckpointIfExists
    /\ nrows' = 0
    /\ UNCHANGED <<env_vars, builder_vars, keys, key, nread, output_vars,
                   error, history_vars>>

(***************************************************************************)
(* processMetadataFiles                                                    *)
(***************************************************************************)
\* one turn of while (true): the next version's file is opened, or the loop breaks
ScanNextVersion ==
    /\ pc = "scan"
    /\ current_version' = current_version + 1
    /\ LET filename == withPadding(current_version + 1) \o metadata_file_suffix
       IN  IF ~exists(filename)
           THEN /\ pc' = "return"
                /\ UNCHANGED <<key, nread, opened>>
           ELSE /\ pc' = "file"
                /\ key' = filename
                /\ nread' = 0
                /\ opened' = Append(opened, filename)
    /\ UNCHANGED <<env_vars, builder_vars, checkpoint_version, keys, nrows,
                   output_vars, error, last_action, both_seen, checkpoint_paths,
                   checkpoint_duplicate, metadata_seen, last_add, last_remove>>

\* the else branch: keys = listFiles(...)
ListFiles ==
    /\ pc = "list"
    /\ keys' = listFiles(metadata_file_suffix)
    /\ pc' = "keys"
    /\ UNCHANGED <<env_vars, builder_vars, checkpoint_version, current_version,
                   key, nread, nrows, output_vars, error, history_vars>>

\* one turn of for (const String & key : keys)
NextKey ==
    /\ pc = "keys"
    /\ IF keys = <<>>
       THEN /\ pc' = "return"
            /\ UNCHANGED <<keys, key, nread, opened>>
       ELSE /\ pc' = "file"
            /\ key' = Head(keys)
            /\ keys' = Tail(keys)
            /\ nread' = 0
            /\ opened' = Append(opened, Head(keys))
    /\ UNCHANGED <<env_vars, builder_vars, checkpoint_version, current_version,
                   nrows, output_vars, error, last_action, both_seen,
                   checkpoint_paths, checkpoint_duplicate, metadata_seen, last_add,
                   last_remove>>

(***************************************************************************)
(* processMetadataFile                                                     *)
(***************************************************************************)
\* history: the log's last Add/Remove per data file path after this object,
\* every key of the object counting as one action (add, then remove)
RecordActions(object) ==
    LET after_add ==
            IF object.add.has
            THEN [last_action EXCEPT ![DataFilePath(object.add.path)] = "add"]
            ELSE last_action
    IN  IF object.remove.has
        THEN [after_add EXCEPT ![DataFilePath(object.remove.path)] = "remove"]
        ELSE after_add

\* one turn of while (!buf->eof()) that finds an object of Objects and leaves
\* the buffer at position
ReadObjectAt(Objects, position) ==
    /\ pc = "file"
    /\ \E object \in Objects :
          LET before == Builder(result_files, current_schema,
                                current_partition_columns, NoError)
              add_remove == IF object.add.has THEN ApplyAdd(before, object.add)
                            ELSE before
              b == ProcessObject(before, object)
          IN  /\ last_action' = RecordActions(object)
              /\ both_seen' = (both_seen \/ (object.add.has /\ object.remove.has))
              /\ last_add' = object.add
              /\ last_remove' = IF object.remove.has /\ ~object.add.has
                                THEN DataFilePath(object.remove.path) ELSE NoPath
              /\ metadata_seen' =
                     IF object.metaData.has
                     THEN metadata_seen \cup
                            {[fields |-> object.metaData.fields,
                              applied |->
                                  /\ add_remove.error = NoError
                                  /\ SchemaLoop(object.metaData.fields, 1, <<>>).error
                                         = NoError]}
                     ELSE metadata_seen
              /\ IF b.error # NoError
                 THEN Throw(b.error)
                 ELSE /\ result_files' = b.result
                      /\ current_schema' = b.file_schema
                      /\ current_partition_columns' = b.file_partition_columns
                      /\ nread' = position
                      /\ UNCHANGED <<pc, checkpoint_version, current_version, keys,
                                     key, nrows, output_vars, error>>
    /\ UNCHANGED <<env_vars, opened, checkpoint_paths, checkpoint_duplicate>>

\* the same, a file delivering one object after the other, MaxObjects at most
ReadObjectOf(Objects) ==
    /\ nread < MaxObjects
    /\ ReadObjectAt(Objects, nread + 1)

ReadObject == ReadObjectOf(JSONObjects)
ReadObjectScan == ReadObjectOf(ScanObjects)

\* buf->eof(): back to the loop of processMetadataFiles that opened the file
EndOfFile ==
    /\ pc = "file"
    /\ pc' = IF checkpoint_version # 0 THEN "scan" ELSE "keys"
    /\ key' = NoFile
    /\ nread' = 0
    /\ last_add' = NoAdd
    /\ last_remove' = NoPath
    /\ UNCHANGED <<env_vars, builder_vars, checkpoint_version, current_version,
                   keys, nrows, output_vars, error, opened, last_action,
                   both_seen, checkpoint_paths, checkpoint_duplicate, metadata_seen>>

\* return DeltaLakeMetadata{...}, and the constructor copies it to the members
ReturnMetadata ==
    /\ pc = "return"
    /\ pc' = "done"
    /\ data_files' = SetToStrings(result_files)
    /\ schema' = current_schema
    /\ partition_columns' = current_partition_columns
    /\ UNCHANGED <<env_vars, builder_vars, checkpoint_version, current_version,
                   keys, key, nread, nrows, error, history_vars>>

Next ==
    \/ GetCheckpoint
    \/ VisitCheckpointRow
    \/ ReturnCheckpoint
    \/ ScanNextVersion
    \/ ListFiles
    \/ NextKey
    \/ ReadObject
    \/ EndOfFile
    \/ ReturnMetadata

\* logs without gaps, files and checkpoints of every content of the model
Spec == Init /\ [][Next]_vars

NextScan ==
    \/ GetCheckpoint
    \/ VisitCheckpointRowScan
    \/ ReturnCheckpoint
    \/ ScanNextVersion
    \/ ListFiles
    \/ NextKey
    \/ ReadObjectScan
    \/ EndOfFile
    \/ ReturnMetadata

\* logs with any set of versions, files and checkpoints of a few contents
SpecScan == InitScan /\ [][NextScan]_vars

\* the owner of the context raises the stop signal while the parse visits the
\* rows of the checkpoint or reads a log file
RaiseStop ==
    /\ pc \in {"checkpoint", "file"}
    /\ ~stop_signal
    /\ stop_signal' = TRUE
    /\ UNCHANGED <<log_files, last_checkpoint, indeterminate, resolver_vars,
                   naming_vars, replay_vars, pc, builder_vars, checkpoint_version, current_version, keys, key, nread, nrows,
                   output_vars, error, history_vars>>

NextStop ==
    \/ GetCheckpoint
    \/ VisitCheckpointRowScan
    \/ ReturnCheckpoint
    \/ ScanNextVersion
    \/ ListFiles
    \/ NextKey
    \/ ReadObjectScan
    \/ EndOfFile
    \/ ReturnMetadata
    \/ RaiseStop

\* the parse of SpecScan in a context whose stop signal may be raised
SpecStop == InitScan /\ [][NextStop]_vars

\* logs of one or two files that hold schemas with column mapping
SchemaObjects ==
    {JSONObject(NoAdd, NoRemove, MetaData(d)) :
        d \in {FieldsX, FieldsXY, FieldsRenamed, FieldsSame}}
        \cup {JSONObject(Add(PathA, <<>>), NoRemove, NoMetaData)}

InitSchema == InitWith({{0}, {0, 1}})
ReadObjectSchema == ReadObjectOf(SchemaObjects)

NextSchema ==
    \/ GetCheckpoint
    \/ VisitCheckpointRowScan
    \/ ReturnCheckpoint
    \/ ScanNextVersion
    \/ ListFiles
    \/ NextKey
    \/ ReadObjectSchema
    \/ EndOfFile
    \/ ReturnMetadata

SpecSchema == InitSchema /\ [][NextSchema]_vars

(***************************************************************************)
(* getSimpleTypeByName called on its own, for type names of every shape    *)
(***************************************************************************)
SimpleTypeNames ==
    {"string", "binary", "long", "integer", "short", "byte", "float", "double",
     "boolean", "date", "timestamp", "interval", "decimal", "decimal("}

\* "decimal(" precision, blanks, comma or none, blanks, scale or none, ")"
DecimalTypeNames ==
    {"decimal(" \o p \o before \o comma \o after \o scale \o ")" :
        p \in {"", "5", "38", "77"}, before \in {"", " "}, comma \in {"", ","},
        after \in {"", " "}, scale \in {"", "0", "2", "x"}}

TypeNames == SimpleTypeNames \cup DecimalTypeNames

\* values that the uninitialised scale can be read as
Indeterminates == {0, 3, 100}

InitTypes ==
    /\ log_files = {}
    /\ last_checkpoint = NoLastCheckpoint
    /\ stop_signal = FALSE
    /\ indeterminate \in Indeterminates
    /\ type_name \in TypeNames
    /\ data_type = Resolved("")
    /\ versions = <<>>
    /\ names = <<>>
    /\ OneLazyParse
    /\ Entry("resolve")

ResolveType ==
    /\ pc = "resolve"
    /\ pc' = "resolved"
    /\ data_type' = getSimpleTypeByName(type_name)
    /\ UNCHANGED <<log_files, last_checkpoint, stop_signal, indeterminate, type_name,
                   naming_vars, replay_vars, builder_vars, checkpoint_version, current_version, keys, key,
                   nread, nrows, output_vars, error, history_vars>>

SpecTypes == InitTypes /\ [][ResolveType]_vars

(***************************************************************************)
(* withPadding called on its own, for two versions out of the range of     *)
(* size_t                                                                  *)
(***************************************************************************)
\* limbs that give versions of one digit up to twenty, 2^64 - 1 among them
Limbs == {0, 9, 10, LimbBase - 1}
UInt64Values == [1..4 -> Limbs]

\* a < b for two size_t
LessUInt64(a, b) ==
    \E i \in 1..4 : a[i] < b[i] /\ \A j \in 1..(i - 1) : a[j] = b[j]

InitNames ==
    /\ log_files = {}
    /\ last_checkpoint = NoLastCheckpoint
    /\ stop_signal = FALSE
    /\ indeterminate = 0
    /\ type_name = ""
    /\ data_type = Resolved("")
    /\ \E a, b \in UInt64Values : LessUInt64(a, b) /\ versions = <<a, b>>
    /\ names = <<>>
    /\ OneLazyParse
    /\ Entry("name")

\* withPadding(version) + metadata_file_suffix, for each of the two
BuildNames ==
    /\ pc = "name"
    /\ pc' = "named"
    /\ names' = [k \in 1..2 |-> withPaddingUInt64(versions[k]) \o metadata_file_suffix]
    /\ UNCHANGED <<log_files, last_checkpoint, stop_signal, indeterminate,
                   resolver_vars, versions, replay_vars, builder_vars,
                   checkpoint_version, current_version, keys, key, nread, nrows,
                   output_vars, error, history_vars>>

SpecNames == InitNames /\ [][BuildNames]_vars

(***************************************************************************)
(* Parses of a storage whose files have their content from the start: the  *)
(* steps are those above, each reading the object or row at its position.  *)
(***************************************************************************)
\* the sequences over S of length n or less
SeqsUpTo(S, n) == UNION {[1..m -> S] : m \in 0..n}

\* a storage whose log has the versions of a set of Logs, whose log files hold
\* objects of Objects, and whose checkpoint, if any, holds rows of Rows
InitFixed(Logs, Objects, Rows) ==
    /\ \E S \in Logs : log_files = {LogFileName(v) : v \in S}
    /\ \E files \in [log_files -> SeqsUpTo(Objects, MaxObjects)] :
          \/ contents = Contents(files, 0, 0, <<>>)
          \/ \E version \in 1..MaxCheckpoint :
                \/ contents = Contents(files, version, 1, <<>>)
                \/ \E rows \in SeqsUpTo(Rows, MaxRows) :
                      contents = Contents(files, version, 2, rows)
    /\ last_checkpoint = IF contents.version = 0 THEN NoLastCheckpoint
                         ELSE LastCheckpoint(contents.version)
    /\ stop_signal = FALSE
    /\ indeterminate \in Indeterminates
    /\ NoResolverCall
    /\ parse = 1
    /\ first = NoOutcome
    /\ Entry("start")

GetCheckpointFixed == GetCheckpointOf({contents.columns})

VisitCheckpointRowFixed ==
    /\ pc = "checkpoint"
    /\ nrows < Len(contents.rows)
    /\ VisitCheckpointRowOf({contents.rows[nrows + 1]})

ReturnCheckpointFixed ==
    /\ pc = "checkpoint"
    /\ nrows = Len(contents.rows)
    /\ ReturnCheckpoint

ReadObjectFixed ==
    /\ pc = "file"
    /\ nread < Len(contents.files[key])
    /\ ReadObjectOf({contents.files[key][nread + 1]})

EndOfFileFixed ==
    /\ pc = "file"
    /\ nread = Len(contents.files[key])
    /\ EndOfFile

\* the entry of a constructor once more: locals, members and history as new
Restart ==
    /\ pc' = "start"
    /\ result_files' = {}
    /\ current_schema' = <<>>
    /\ current_partition_columns' = {}
    /\ checkpoint_version' = 0
    /\ current_version' = 0
    /\ keys' = <<>>
    /\ key' = NoFile
    /\ nread' = 0
    /\ nrows' = 0
    /\ data_files' = <<>>
    /\ schema' = <<>>
    /\ partition_columns' = {}
    /\ error' = NoError
    /\ opened' = <<>>
    /\ last_action' = [k \in DataFilePaths |-> "none"]
    /\ both_seen' = FALSE
    /\ checkpoint_paths' = {}
    /\ checkpoint_duplicate' = FALSE
    /\ metadata_seen' = {}
    /\ last_add' = NoAdd
    /\ last_remove' = NoPath

\* a second parser is constructed for the same storage; what its
\* uninitialised variables read as is not bound to what the first one's did
ParseAgain ==
    /\ pc \in {"done", "failed"}
    /\ parse = 1
    /\ parse' = 2
    /\ first' = Outcome
    /\ indeterminate' \in Indeterminates
    /\ Restart
    /\ UNCHANGED <<log_files, last_checkpoint, stop_signal, resolver_vars,
                   naming_vars, contents>>

\* logs of two files at most; a path added and removed, and a schema with a
\* decimal column
InitTwo ==
    InitFixed({{}, {0}, {0, 1}},
              {JSONObject(Add(PathA, <<>>), NoRemove, NoMetaData),
               JSONObject(NoAdd, Remove(PathA), NoMetaData),
               JSONObject(NoAdd, NoRemove, MetaData(FieldsDecimal))},
              {CheckpointRow(StringPath(PathA), NullPath, NoMetaData),
               CheckpointRow(NullPath, StringPath(PathA), NoMetaData)})

NextTwo ==
    \/ GetCheckpointFixed
    \/ VisitCheckpointRowFixed
    \/ ReturnCheckpointFixed
    \/ ScanNextVersion
    \/ ListFiles
    \/ NextKey
    \/ ReadObjectFixed
    \/ EndOfFileFixed
    \/ ReturnMetadata
    \/ ParseAgain

\* two parses, one after the other, of one storage
SpecTwo == InitTwo /\ [][NextTwo]_vars

\* the storage is parsed once more after _last_checkpoint was taken away
ReplayWithoutLastCheckpoint ==
    /\ pc \in {"done", "failed"}
    /\ parse = 1
    /\ last_checkpoint.exists
    /\ last_checkpoint' = NoLastCheckpoint
    /\ parse' = 2
    /\ first' = Outcome
    /\ Restart
    /\ UNCHANGED <<log_files, stop_signal, indeterminate, resolver_vars,
                   naming_vars, contents>>

\* logs 0..1 and 0..2 with a checkpoint; a schema, a path added with a
\* partition value and removed
InitReplay ==
    /\ InitFixed({{0, 1}, {0, 1, 2}},
                 {JSONObject(NoAdd, NoRemove, MetaData(FieldsX)),
                  JSONObject(Add(PathA, ValuesX), NoRemove, NoMetaData),
                  JSONObject(NoAdd, Remove(PathA), NoMetaData)},
                 {CheckpointRow(StringPath(PathA), NullPath, NoMetaData)})
    /\ contents.columns = 2
    /\ indeterminate = 0

NextReplay ==
    \/ GetCheckpointFixed
    \/ VisitCheckpointRowFixed
    \/ ReturnCheckpointFixed
    \/ ScanNextVersion
    \/ ListFiles
    \/ NextKey
    \/ ReadObjectFixed
    \/ EndOfFileFixed
    \/ ReturnMetadata
    \/ ReplayWithoutLastCheckpoint

\* a parse from the checkpoint, then a parse of the whole log
SpecReplay == InitReplay /\ [][NextReplay]_vars

\* no checkpoint, a log of one or two files; a schema, adds with and without
\* partition values, relative and absolute, a remove, an add with a metaData
InitFrame ==
    /\ InitFixed({{0}, {0, 1}},
                 {JSONObject(NoAdd, NoRemove, MetaData(FieldsX)),
                  JSONObject(Add(PathA, ValuesX), NoRemove, NoMetaData),
                  JSONObject(Add(PathAbs, <<>>), NoRemove, NoMetaData),
                  JSONObject(NoAdd, Remove(PathA), NoMetaData),
                  JSONObject(Add(PathA, ValuesX), NoRemove, MetaData(FieldsX))},
                 {})
    /\ contents.version = 0
    /\ indeterminate = 0

NextFrame ==
    \/ GetCheckpointFixed
    \/ ListFiles
    \/ NextKey
    \/ ReadObjectFixed
    \/ EndOfFileFixed
    \/ ReturnMetadata

\* one parse of a listed log whose files have their content from the start
SpecFrame == InitFrame /\ [][NextFrame]_vars

(***************************************************************************)
(* processMetadataFile on a file given byte by byte: contents.files[key]   *)
(* is the text of the file and nread the number of bytes the buffer has    *)
(* delivered.                                                              *)
(***************************************************************************)
\* '{'
OPEN == 123

\* readJSONObjectPossiblyInvalid(json_str, buf) with the buffer before byte
\* pos: the text from '{' up to the '}' that closes it, braces between two
\* '"' not counting, and the number of bytes delivered afterwards; a throw
\* when the text does not start with '{' or ends before the closing '}'
readJSONObjectPossiblyInvalid(text, pos) ==
    LET quote == 34
        close == 125
        in_string(j) == Cardinality({k \in pos..(j - 1) : text[k] = quote}) % 2 = 1
        balance(e) ==
            Cardinality({j \in pos..e : text[j] = OPEN /\ ~in_string(j)})
                - Cardinality({j \in pos..e : text[j] = close /\ ~in_string(j)})
        ends == {e \in pos..Len(text) : balance(e) = 0}
    IN  IF pos > Len(text) \/ text[pos] # OPEN
        THEN [error |-> Exception("INCORRECT_DATA",
                                  "JSON object should start with opening bracket"),
              json_str |-> <<>>, position |-> pos - 1]
        ELSE IF ends = {}
        THEN [error |-> Exception("INCORRECT_DATA",
                                  "JSON object should have equal number of brackets"),
              json_str |-> <<>>, position |-> Len(text)]
        ELSE LET e == CHOOSE e \in ends : \A f \in ends : e <= f
             IN  [error |-> NoError, json_str |-> SubSeq(text, pos, e), position |-> e]

\* faulty variant: the byte is looked at and left in the buffer
SkipInvalid_NoIgnore ==
    /\ pc = "file"
    /\ nread < Len(contents.files[key])
    /\ contents.files[key][nread + 1] # OPEN
    /\ UNCHANGED vars

\* while (buf->peek(c) && c != '{') buf->ignore(); one byte
SkipInvalid ==
    /\ pc = "file"
    /\ nread < Len(contents.files[key])
    /\ contents.files[key][nread + 1] # OPEN
    /\ nread' = nread + 1
    /\ UNCHANGED <<env_vars, builder_vars, pc, checkpoint_version, current_version,
                   keys, key, nrows, output_vars, error, history_vars>>

\* the buffer is at a '{': the object's text is read; an empty one is passed
\* over; the text is parsed, and of the texts over '{', '}', '"' and 'x' only
\* "{}" is JSON, an object with no key
ReadObjectText ==
    /\ pc = "file"
    /\ nread < Len(contents.files[key])
    /\ contents.files[key][nread + 1] = OPEN
    /\ LET read == readJSONObjectPossiblyInvalid(contents.files[key], nread + 1)
       IN  IF read.error # NoError
           THEN Throw(read.error) /\ UNCHANGED <<env_vars, history_vars>>
           ELSE IF read.json_str = <<>>
           THEN /\ nread' = read.position
                /\ UNCHANGED <<env_vars, builder_vars, pc, checkpoint_version,
                               current_version, keys, key, nrows, output_vars,
                               error, history_vars>>
           ELSE IF read.json_str # <<OPEN, 125>>
           THEN /\ Throw(Exception("JSON_EXCEPTION", "Poco::JSON::Parser::parse"))
                /\ UNCHANGED <<env_vars, history_vars>>
           ELSE ReadObjectAt({JSONObject(NoAdd, NoRemove, NoMetaData)}, read.position)

\* a log of one file, version 0 or version 2, of MaxText bytes at most out of
\* '{', '}', '"' and 'x'; no checkpoint, or one of any shape
InitLive ==
    /\ \E v \in {0, 2} : log_files = {LogFileName(v)}
    /\ \E files \in [log_files -> SeqsUpTo({OPEN, 125, 34, 120}, MaxText)] :
          \/ contents = Contents(files, 0, 0, <<>>)
          \/ \E version \in 1..MaxCheckpoint :
                \/ contents = Contents(files, version, 1, <<>>)
                \/ \E rows \in SeqsUpTo({CheckpointRow(StringPath(PathA), NullPath,
                                                        NoMetaData)}, MaxRows) :
                      contents = Contents(files, version, 2, rows)
    /\ last_checkpoint = IF contents.version = 0 THEN NoLastCheckpoint
                         ELSE LastCheckpoint(contents.version)
    /\ stop_signal = FALSE
    /\ indeterminate = 0
    /\ NoResolverCall
    /\ parse = 1
    /\ first = NoOutcome
    /\ Entry("start")

NextLive ==
    \/ GetCheckpointFixed
    \/ VisitCheckpointRowFixed
    \/ ReturnCheckpointFixed
    \/ ScanNextVersion
    \/ ListFiles
    \/ NextKey
    \/ SkipInvalid
    \/ ReadObjectText
    \/ EndOfFileFixed
    \/ ReturnMetadata

\* the constructor runs on the calling thread and waits for nothing: a step
\* that can be taken is taken
SpecLive == InitLive /\ [][NextLive]_vars /\ WF_vars(NextLive)

(***************************************************************************)
(* What the claims speak of.                                               *)
(***************************************************************************)
IsPrefix(s, t) == Len(s) <= Len(t) /\ SubSeq(t, 1, Len(s)) = s

\* the log files opened so far, in order (the checkpoint file left out)
LogFilesOpened == SelectSeq(opened, LAMBDA f : EndsWith(f, metadata_file_suffix))

\* the commit file names of the versions the storage can hold, and one more
LogFileNames == [v \in 0..(MaxVersion + 1) |-> LogFileName(v)]

\* the versions whose commit file is in _delta_log
VersionsPresent == {v \in 0..(MaxVersion + 1) : LogFileNames[v] \in log_files}

\* the commit files of the versions of V, by increasing version
FilesByVersion(V) ==
    [k \in 1..Cardinality(V) |->
        LogFileNames[CHOOSE v \in V : Cardinality({u \in V : u < v}) = k - 1]]

\* the (physical_name, type) projection of a schema descriptor
Projection(fields) ==
    [i \in 1..Len(fields) |->
        NameAndTypePair(
            IF \E kv \in fields[i].metadata : kv[1] = physicalName
            THEN (CHOOSE kv \in fields[i].metadata : kv[1] = physicalName)[2]
            ELSE fields[i].name,
            DataType(getSimpleTypeByName(fields[i].type).name, fields[i].nullable))]

\* the parse has returned a snapshot
Returned == pc = "done"
Failed == pc = "failed"
FailedWith(code) == pc = "failed" /\ error.code = code

\* no member of the parser object was assigned
NoSnapshot == data_files = <<>> /\ schema = <<>> /\ partition_columns = {}

(***************************************************************************)
(* C1                                                                      *)
(***************************************************************************)
\* C1: with no checkpoint and no object carrying both add and remove, the
\* returned data_files is exactly the set of root/p whose last Add or Remove,
\* in file order and in-file order, is an Add.
C1_LastActionDecides ==
    (Returned /\ checkpoint_version = 0 /\ ~both_seen)
        => Range(data_files) = {k \in DataFilePaths : last_action[k] = "add"}

\* a snapshot of a log of two files or more where one path ended on a Remove
\* and another on an Add
C1_Witness ==
    /\ Returned /\ checkpoint_version = 0 /\ ~both_seen
    /\ Len(opened) >= 2
    /\ \E k \in DataFilePaths : last_action[k] = "remove"
    /\ \E k \in DataFilePaths : last_action[k] = "add"

(***************************************************************************)
(* C2                                                                      *)
(***************************************************************************)
\* C2: a Remove(p) applied when root/p is not in the active set leaves the
\* set as it was and raises nothing (an exception of the same step can only
\* be the one of a metaData key of the same object).
C2_RemoveAbsentIsNoOp ==
    [][(pc = "file" /\ pc' \in {"file", "failed"}
          /\ last_remove' # NoPath /\ last_remove' \notin result_files)
         => /\ pc' = "file" => result_files' = result_files
            /\ pc' = "failed" => error'.code \in {"NOT_IMPLEMENTED", "BAD_ARGUMENTS"}]_vars

\* the second object of the only file opened removed a path while another
\* path was active: the removed path was not in the set
C2_Witness ==
    /\ pc = "file" /\ checkpoint_version = 0 /\ Len(opened) = 1 /\ nread = 2
    /\ ~both_seen
    /\ last_remove # NoPath
    /\ result_files # {}

(***************************************************************************)
(* C3                                                                      *)
(***************************************************************************)
\* two metaData actions that were applied carry schemas that differ
DistinctSchemasApplied ==
    \E m1, m2 \in metadata_seen :
        /\ m1.applied /\ m2.applied
        /\ Projection(m1.fields) # Projection(m2.fields)

\* C3: once two applied metaData actions carry distinct schemas the parse has
\* failed with NOT_IMPLEMENTED and returns no snapshot, whatever the first
\* schema is.
C3_DistinctSchemasFail ==
    DistinctSchemasApplied => (FailedWith("NOT_IMPLEMENTED") /\ NoSnapshot)

(***************************************************************************)
(* C4                                                                      *)
(***************************************************************************)
\* every metaData action of the log, checkpoint rows included, carries the
\* same schema descriptor
SameDescriptor(fields) ==
    /\ metadata_seen # {}
    /\ \A m \in metadata_seen : m.fields = fields

\* C4: when all metaData actions of the log carry one schema descriptor, the
\* parse does not fail on the schema and the returned schema is the
\* projection of that descriptor, from version 0 and from a checkpoint alike.
C4_SchemaStability ==
    \A fields \in Descriptors \ {FieldsBad} :
        SameDescriptor(fields)
            => /\ ~FailedWith("NOT_IMPLEMENTED")
               /\ Returned => schema = Projection(fields)

(***************************************************************************)
(* C5                                                                      *)
(***************************************************************************)
\* the commit files V+1, V+2, ... up to the first absent version
ExpectedScan(V) ==
    LET present == VersionsPresent
        absent == CHOOSE n \in (V + 1)..(MaxVersion + 1) :
                      /\ n \notin present
                      /\ \A m \in (V + 1)..(n - 1) : m \in present
    IN  [i \in 1..(absent - V - 1) |-> LogFileNames[V + i]]

\* C5: after a checkpoint at version V the log files opened are V+1, V+2, ...
\* in increasing order up to the first absent version, and no other log file.
C5_MonotoneVersionScan ==
    readLastCheckpointIfExists # 0
        => /\ IsPrefix(LogFilesOpened, ExpectedScan(readLastCheckpointIfExists))
           /\ pc \in {"return", "done"}
                => LogFilesOpened = ExpectedScan(readLastCheckpointIfExists)

\* a scan that opened a file, stopped at an absent version, and left alone a
\* file above the gap and a file not above the checkpoint
C5_Witness ==
    /\ Returned /\ checkpoint_version # 0
    /\ Len(LogFilesOpened) >= 1
    /\ \E v \in VersionsPresent : v > checkpoint_version + Len(LogFilesOpened) + 1
    /\ \E v \in VersionsPresent : v <= checkpoint_version

(***************************************************************************)
(* C6                                                                      *)
(***************************************************************************)
\* the data file paths the checkpoint rows seeded
CheckpointSeed == {DataFilePath(p) : p \in checkpoint_paths}

\* C6: with a checkpoint, the returned data_files is the checkpoint's
\* non-empty add paths with the actions of the log files V+1..N applied in
\* order: a path is active iff its last action is an Add, or it has no action
\* and the checkpoint seeded it.
C6_CheckpointSeedsReplay ==
    (Returned /\ checkpoint_version # 0)
        => Range(data_files) =
               {k \in DataFilePaths :
                   \/ last_action[k] = "add"
                   \/ last_action[k] = "none" /\ k \in CheckpointSeed}

C8_EveryKeyApplied ==
    ~Failed
        => \A k \in DataFilePaths :
              /\ last_action[k] = "remove" => k \notin result_files
              /\ last_action[k] = "add" => k \in result_files

(***************************************************************************)
(* C9                                                                      *)
(***************************************************************************)
\* the number a literal of this model denotes
LiteralNumber(raw) == IF raw = Seven THEN 7 ELSE 12

\* the partition list of partition_values under a schema that has every name
ExpectedColumns(names_and_types, partition_values) ==
    [i \in 1..Len(partition_values) |->
        LET nt == CHOOSE e \in Range(names_and_types) : e.name = partition_values[i].name
        IN  [name_and_type |-> nt,
             field |-> IF nt.type.name = "String"
                       THEN StringField(partition_values[i].value)
                       ELSE IntField(LiteralNumber(partition_values[i].value))]]

SchemaHasAll(names_and_types, partition_values) ==
    \A i \in 1..Len(partition_values) :
        \E e \in Range(names_and_types) : e.name = partition_values[i].name

\* C9: an Add whose basename has no partition record yet and whose
\* partition_values is non-empty gets a record typed with the schema in force
\* before the step, or fails with LOGICAL_ERROR when that schema lacks a name;
\* an Add with empty partition_values creates no record.
C9_PartitionValuesTyped ==
    [][(pc = "file" /\ pc' \in {"file", "failed"} /\ last_add'.has
          /\ ~HasPartitionEntry(current_partition_columns, Filename(last_add'.path)))
         => LET filename == Filename(last_add'.path)
                values == last_add'.partitionValues
            IN  IF values = <<>>
                THEN pc' = "file"
                        => ~HasPartitionEntry(current_partition_columns', filename)
                ELSE IF ~SchemaHasAll(current_schema, values)
                THEN pc' = "failed" /\ error'.code = "LOGICAL_ERROR"
                ELSE /\ pc' = "file"
                          => PartitionEntry(filename,
                                            ExpectedColumns(current_schema, values))
                                \in current_partition_columns'
                     /\ pc' = "failed"
                          => error'.code \in {"NOT_IMPLEMENTED", "BAD_ARGUMENTS"}]_vars

\* the first file held a metaData and then an Add with two partition values,
\* which are now the basename's record
C9_Witness ==
    /\ pc = "file" /\ checkpoint_version = 0 /\ Len(opened) = 1 /\ nread = 2
    /\ last_add.has /\ Len(last_add.partitionValues) = 2
    /\ PartitionEntry(Filename(last_add.path),
                      ExpectedColumns(current_schema, last_add.partitionValues))
           \in current_partition_columns

(***************************************************************************)
(* C10                                                                     *)
(***************************************************************************)
\* C10: without _last_checkpoint the parse opens no checkpoint file, opens
\* every .json file of _delta_log in the order of the listing, gaps in the
\* version numbers notwithstanding, and fails only while it reads a log file.
C10_NoLastCheckpoint ==
    ~last_checkpoint.exists
        => /\ IsPrefix(opened, FilesByVersion(VersionsPresent))
           /\ pc \in {"return", "done"} => opened = FilesByVersion(VersionsPresent)
           /\ Failed => Len(opened) >= 1

\* a snapshot of a log with a gap in its versions, every file opened
C10_Witness ==
    /\ Returned /\ ~last_checkpoint.exists
    /\ Len(opened) >= 2
    /\ \E v \in VersionsPresent :
          /\ v - 1 \notin VersionsPresent
          /\ \E u \in VersionsPresent : u < v

(***************************************************************************)
(* C11                                                                     *)
(***************************************************************************)
\* C11: no error is recovered: the step that raises an error ends the parse
\* without a snapshot, and after it no action is applied, no file is opened
\* and nothing is returned.
C11_NoErrorRecovered ==
    [][/\ error' # NoError => (pc' = "failed" /\ NoSnapshot')
       /\ error # NoError => UNCHANGED vars]_vars

\* a parse that applied an Add, then failed in a log file while a later log
\* file was still to be opened
C11_Witness ==
    /\ Failed /\ NoSnapshot
    /\ Len(LogFilesOpened) >= 1
    /\ Cardinality(VersionsPresent) > checkpoint_version + Len(LogFilesOpened)
    /\ \E k \in DataFilePaths : last_action[k] = "add"

(***************************************************************************)
(* C12                                                                     *)
(***************************************************************************)
\* C12: a stop signal raised while the parse reads a log file or visits the
\* checkpoint's rows is observed at the next point between two log files or
\* two rows: the parse does not get to return a snapshot, and when it ends it
\* has failed.
C12_StopObserved ==
    stop_signal => (pc \notin {"return", "done"} /\ NoSnapshot)

(***************************************************************************)
(* C17                                                                     *)
(***************************************************************************)
\* the text of a scale: none when the scale is missing
ScaleText(has_scale, s) == IF has_scale THEN ToString(s) ELSE ""

\* C17: "decimal(p,s)", blanks around the comma or not, resolves to the
\* decimal of precision p and scale s, and with the scale missing to the
\* decimal of precision p and scale 0, whatever an uninitialised value reads as.
C17_DecimalResolved ==
    \A p \in {5, 38}, s \in {0, 2}, has_scale \in BOOLEAN,
       before \in {"", " "}, after \in {"", " "} :
        (/\ pc = "resolved"
         /\ type_name = "decimal(" \o ToString(p) \o before \o "," \o after
                            \o ScaleText(has_scale, s) \o ")")
            => data_type = Resolved("Decimal(" \o ToString(p) \o ", "
                                      \o ToString(IF has_scale THEN s ELSE 0) \o ")")

(***************************************************************************)
(* C13                                                                     *)
(***************************************************************************)
\* the log files were opened by increasing name, which is by increasing version
OpenedInOrder ==
    \A i, j \in 1..Len(LogFilesOpened) :
        i < j => LexLess(LogFilesOpened[i], LogFilesOpened[j])

\* C13: the log files are read by increasing version and each from its first
\* object to its last, and a second parse of the same storage ends as the
\* first did: the same schema, data_files and partition_columns, or the same
\* error.
C13_SameStorageSameOutcome ==
    /\ OpenedInOrder
    /\ (parse = 2 /\ pc \in {"done", "failed"}) => Outcome = first

(***************************************************************************)
(* C14                                                                     *)
(***************************************************************************)
\* C14: the data_files of a snapshot is strictly increasing in lexicographic
\* order: sorted, and no path twice.
C14_DataFilesSorted ==
    Returned
        => \A i, j \in 1..Len(data_files) :
              i < j => LexLess(data_files[i], data_files[j])

\* a snapshot of two data files, one seeded by a checkpoint row and one
\* added by a log file read after it
C14_Witness ==
    /\ Returned
    /\ Len(data_files) = 2
    /\ checkpoint_paths # {}
    /\ \E k \in DataFilePaths : last_action[k] = "add" /\ k \notin CheckpointSeed

(***************************************************************************)
(* C15                                                                     *)
(***************************************************************************)
\* n * 10 + carry in size_t, from limb i down to the most significant one;
\* over is what does not fit
RECURSIVE MulAdd10(_, _, _)
MulAdd10(n, i, carry) ==
    IF i = 0 THEN [value |-> n, over |-> carry]
    ELSE MulAdd10([n EXCEPT ![i] = (n[i] * 10 + carry) % LimbBase], i - 1,
                  (n[i] * 10 + carry) \div LimbBase)

\* the number that a text of decimal digits spells
RECURSIVE DecimalValue(_)
DecimalValue(text) ==
    IF text = <<>> THEN [value |-> [i \in 1..4 |-> 0], over |-> 0]
    ELSE CHOOSE next \in
             {[value |-> MulAdd10(front.value, 4, text[Len(text)] - ZERO).value,
               over |-> front.over
                          + MulAdd10(front.value, 4, text[Len(text)] - ZERO).over] :
                 front \in {DecimalValue(SubSeq(text, 1, Len(text) - 1))}} : TRUE

\* name is twenty decimal digits that spell version, then ".json"
IsPaddedName(name, version) ==
    /\ Len(name) = 20 + Len(metadata_file_suffix)
    /\ \A i \in 1..20 : name[i] \in ZERO..(ZERO + 9)
    /\ DecimalValue(SubSeq(name, 1, 20)) = [value |-> version, over |-> 0]
    /\ SubSeq(name, 21, Len(name)) = metadata_file_suffix

\* C15: for every version of the range of size_t the log file name is the
\* decimal text of the version, padded on the left with '0' to exactly
\* twenty characters, followed by ".json"; the count of padding characters
\* is never below zero.
C15_PaddingLaw ==
    pc = "named"
        => \A k \in 1..2 :
              /\ IsPaddedName(names[k], versions[k])
              /\ PaddingCount(Len(toStringUInt64(versions[k]))) >= 0

\* the names of a version of one digit and of 2^64 - 1, of twenty digits
C15_Witness ==
    /\ pc = "named"
    /\ versions[1] = <<0, 0, 0, 9>>
    /\ versions[2] = [i \in 1..4 |-> LimbBase - 1]
    /\ names[1][20] = ZERO + 9
    /\ names[2][1] = ZERO + 1

(***************************************************************************)
(* C18                                                                     *)
(***************************************************************************)
\* C18: of two versions the smaller has the log file name that is smaller in
\* lexicographic order.
C18_NameOrderIsVersionOrder ==
    pc = "named"
        => (LessUInt64(versions[1], versions[2]) => LexLess(names[1], names[2]))

\* the names of 9 and of 10, whose decimal texts are in the other order
C18_Witness ==
    /\ pc = "named"
    /\ versions[1] = <<0, 0, 0, 9>>
    /\ versions[2] = <<0, 0, 0, 10>>
    /\ LexLess(toStringUInt64(versions[2]), toStringUInt64(versions[1]))

(***************************************************************************)
(* C16                                                                     *)
(***************************************************************************)
\* the schema has one entry per field of descriptor fields, in the order of
\* the fields, named by the physical name where the field has one and by the
\* logical name where it has none
NamedByRule(fields) ==
    /\ Len(schema) = Len(fields)
    /\ \A i \in 1..Len(fields) : schema[i].name = Projection(fields)[i].name

HasPhysicalName(field) == \E kv \in field.metadata : kv[1] = physicalName

\* no logical name that has a physical name is the name of an entry
NoMappedLogicalName(fields) ==
    \A i \in 1..Len(fields) :
        HasPhysicalName(fields[i])
            => \A j \in 1..Len(schema) : schema[j].name # fields[i].name

\* the names that the rule gives to the fields
RuleNames(fields) == {Projection(fields)[i].name : i \in 1..Len(fields)}

\* C16 as stated: the entries of the schema of a snapshot are named by the
\* rule from the fields of an applied metaData action, and a logical name
\* that has a physical name never appears in the schema.
C16_LogicalNameNeverAppears ==
    (Returned /\ schema # <<>>)
        => \E m \in metadata_seen :
              /\ m.applied
              /\ NamedByRule(m.fields)
              /\ NoMappedLogicalName(m.fields)

\* C16, amended: the entries are named by the rule, in field order; a logical
\* name that has a physical name appears in the schema only where the rule
\* gives that very name to a field (its physical name equals it, or another
\* field has it as physical name or as unmapped logical name).
C16_NamedByPhysicalName ==
    (Returned /\ schema # <<>>)
        => \E m \in metadata_seen :
              /\ m.applied
              /\ NamedByRule(m.fields)
              /\ (\A i \in 1..Len(m.fields) :
                      HasPhysicalName(m.fields[i])
                          => m.fields[i].name \notin RuleNames(m.fields))
                     => NoMappedLogicalName(m.fields)

\* a snapshot whose schema has the column x under its logical name and the
\* column u under its physical name y
C16_Witness ==
    /\ Returned
    /\ Len(schema) = 2
    /\ schema[1].name = "x" /\ schema[2].name = "y"
    /\ [fields |-> FieldsXY, applied |-> TRUE] \in metadata_seen

(***************************************************************************)
(* C19                                                                     *)
(***************************************************************************)
\* the builder after the objects of a file from position i on
RECURSIVE ReplayFile(_, _, _)
ReplayFile(b, objects, i) ==
    IF i > Len(objects) \/ b.error # NoError THEN b
    ELSE ReplayFile(ProcessObject(b, objects[i]), objects, i + 1)

\* the builder after the log files of versions v..V
RECURSIVE ReplayLog(_, _, _)
ReplayLog(b, v, V) ==
    IF v > V \/ b.error # NoError THEN b
    ELSE ReplayLog(ReplayFile(b, contents.files[LogFileNames[v]], 1), v + 1, V)

\* the checkpoint is at a version of the log and its add paths, none twice,
\* are the active set that replaying versions 0..V gives
CheckpointOfReplay ==
    LET V == contents.version
        at_V == ReplayLog(Builder({}, <<>>, {}, NoError), 0, V)
        rows == contents.rows
    IN  /\ V >= 1
        /\ LogFileNames[V] \in log_files
        /\ contents.columns = 2
        /\ at_V.error = NoError
        /\ {DataFilePath(rows[i].add_path.str) : i \in 1..Len(rows)} = at_V.result
        /\ \A i, j \in 1..Len(rows) : i # j => rows[i] # rows[j]

\* C19: for a log 0..N without gaps and a checkpoint at V in 1..N whose add
\* paths are the active set after versions 0..V, the parse from the
\* checkpoint returns the data_files that the parse of the whole log, with
\* _last_checkpoint taken away, returns.
C19_CheckpointRefinesReplay ==
    (parse = 2 /\ Returned /\ CheckpointOfReplay)
        => (first.pc = "done" /\ first.data_files = data_files)

(***************************************************************************)
(* C20                                                                     *)
(***************************************************************************)
\* C20: in a snapshot every key of partition_columns is the basename of a
\* path of data_files.
C20_PartitionKeysAreDataFiles ==
    Returned
        => \A e \in partition_columns :
              \E i \in 1..Len(data_files) : Filename(data_files[i]) = e.filename

(***************************************************************************)
(* C21                                                                     *)
(***************************************************************************)
\* the entries that a partition map holds for a basename
EntriesOf(file_partition_columns, filename) ==
    {e \in file_partition_columns : e.filename = filename}

\* C21: as long as the parse has not failed, a step leaves every entry of the
\* builder's partition_columns as it is: after the step the map holds, for
\* that basename, that entry and no other.
C21_PartitionRecordWriteOnce ==
    [][pc' # "failed"
          => \A e \in current_partition_columns :
                EntriesOf(current_partition_columns', e.filename) = {e}]_vars

\* an add with two partition values, for a basename whose entry has one
\* column, has just been applied
C21_Witness ==
    /\ pc = "file"
    /\ last_add.has
    /\ Len(last_add.partitionValues) = 2
    /\ \E e \in current_partition_columns :
          e.filename = Filename(last_add.path) /\ Len(e.columns) = 1

(***************************************************************************)
(* C22                                                                     *)
(***************************************************************************)
\* the object has this one of the keys add, remove, metaData and no other
OnlyAdd(object) == object.add.has /\ ~object.remove.has /\ ~object.metaData.has
OnlyRemove(object) == ~object.add.has /\ object.remove.has /\ ~object.metaData.has
OnlyMetaData(object) == ~object.add.has /\ ~object.remove.has /\ object.metaData.has

\* C22: a step that applies an object without failing: a metaData alone
\* leaves the active set and the partition map as they are, a remove alone
\* leaves the schema and the partition map as they are, an add alone leaves
\* the schema as it is and makes the active set the old one with
\* fs::path(root) / path in it.
C22_FrameEffects ==
    [][(pc = "file" /\ nread < Len(contents.files[key]) /\ pc' = "file")
          => LET object == contents.files[key][nread + 1]
             IN  /\ OnlyMetaData(object)
                        => /\ result_files' = result_files
                           /\ current_partition_columns' = current_partition_columns
                 /\ OnlyRemove(object)
                        => /\ current_schema' = current_schema
                           /\ current_partition_columns' = current_partition_columns
                 /\ OnlyAdd(object)
                        => /\ current_schema' = current_schema
                           /\ result_files' =
                                  result_files \cup {DataFilePath(object.add.path)}]_vars

\* a metaData alone has just been applied to a builder that has a file and a
\* partition entry
C22_Witness ==
    /\ pc = "file"
    /\ nread >= 1
    /\ OnlyMetaData(contents.files[key][nread])
    /\ result_files # {}
    /\ current_partition_columns # {}

(***************************************************************************)
(* C23                                                                     *)
(***************************************************************************)
\* C23: every path of the returned data_files has the table root as a prefix.
C23_DataFilesUnderRoot ==
    Returned => \A i \in 1..Len(data_files) : IsPrefix(Root, data_files[i])

(***************************************************************************)
(* C24                                                                     *)
(***************************************************************************)
\* C24: every parse of a storage of finitely many log files of finite length
\* comes to its end: it returns a snapshot or it fails.
C24_ParseFinishes == <>(pc \in {"done", "failed"})

\* a snapshot was returned after a file with a stray byte and an object in it
\* was read
C24_Witness ==
    /\ Returned
    /\ \E f \in log_files :
          /\ f \in Range(opened)
          /\ \E i, j \in 1..Len(contents.files[f]) :
                contents.files[f][i] = 120 /\ contents.files[f][j] = OPEN

====
